---- MODULE Spec2Model ----
(***************************************************************************)
(* Model of the scalar reverse-mode autodiff engine (src/src/value.rs),    *)
(* the neuron / layer / MLP built on it (src/src/nn.rs) and the two        *)
(* drivers in src/src/main.rs (the value-library test and the training     *)
(* loop).                                                                  *)
(*                                                                         *)
(* Nodes (Rc<RefCell<RawValue>>) live in an arena `heap`: a node's         *)
(* identity (Rc::ptr_eq, the key of the visited set) is its index.         *)
(*                                                                         *)
(* Numbers: f64 is modelled by exact arithmetic in the prime field of      *)
(* order Modulus; -1.0 is Modulus-1, 0.1 is the inverse of 10, powf with   *)
(* a negative exponent is a power of the inverse.  Rounding, infinities    *)
(* and NaN are not modelled: the builders below never take the inverse of  *)
(* zero.  Every gradient the engine computes is a polynomial in the node   *)
(* values, so the field keeps the sums and products of the code apart.     *)
(***************************************************************************)
EXTENDS Integers, Sequences, FiniteSets, TLC

VARIABLES heap, pc, root, stack, visited, topo_sort, idx,
          pre, roots, mlp, xs, ys, ypred, loss, epoch

vars == <<heap, pc, root, stack, visited, topo_sort, idx,
          pre, roots, mlp, xs, ys, ypred, loss, epoch>>

nnvars == <<mlp, xs, ys, ypred, loss, epoch>>

bwvars == <<root, stack, visited, topo_sort, idx, pre, roots>>

----------------------------------------------------------------------------
(* Bounds of the model *)

\* nodes of a graph that backward is called on once
MaxNodes == 4

\* nodes of a graph that backward is called on again without a reset
MaxNodesAgain == 3

\* calls of backward on one graph
MaxPasses == 2

\* epochs of the training loop (max_epoch of main is 100)
MaxEpoch == 2

\* rows of the data set that are used (main has 4)
MaxSamples == 2

----------------------------------------------------------------------------
(* f64 arithmetic *)

Modulus == 103

FAdd(a, b) == (a + b) % Modulus

FMul(a, b) == (a * b) % Modulus

FNeg(a) == (Modulus - (a % Modulus)) % Modulus

FInv == [a \in 1 .. (Modulus - 1) |-> CHOOSE x \in 1 .. (Modulus - 1) : (a * x) % Modulus = 1]

RECURSIVE IPow(_, _)
IPow(b, k) == IF k = 0 THEN 1 ELSE FMul(b, IPow(b, k - 1))

\* f64::powf for the integral exponents the program uses
powf(b, p) == IF p >= 0 THEN IPow(b, p) ELSE IPow(FInv[b], 0 - p)

\* f64::exp: a fixed function of the argument with exp(0) = 1 whose result
\* is never 0 and never -1 (e^x > 0), so that exp(2x) + 1 has an inverse
f64_exp(x) == (x * x + 1) % Modulus

\* the f64 literal of an integral exponent p
Lit(p) == p % Modulus

----------------------------------------------------------------------------
(* Value / RawValue *)

Ids(h) == 1 .. Len(h)

RawValue(data, op, children, extra) ==
    [data |-> data, grad |-> 0, op |-> op, children |-> children, extra |-> extra]

\* Value::new: allocates a leaf; the new node is the last of the arena
new(h, data) == Append(h, RawValue(data, "", <<>>, 0))

new_for_op(h, data, op, children, extra) == Append(h, RawValue(data, op, children, extra))

get_data(h, v) == h[v].data

get_grad(h, v) == h[v].grad

get_children(h, v) == h[v].children

update_data(h, v, d) == [h EXCEPT ![v].data = FAdd(@, d)]

set_grad_accumulate(h, v, g) == [h EXCEPT ![v].grad = FAdd(@, g)]

set_grad(h, v, g) == [h EXCEPT ![v].grad = g]

update_grad_set(h, v, g) == [h EXCEPT ![v].grad = g]

update_grad(h, v, g) == [h EXCEPT ![v].grad = FAdd(@, g)]

add(h, v1, v2) == new_for_op(h, FAdd(get_data(h, v1), get_data(h, v2)), "+", <<v1, v2>>, 0)

mul(h, v1, v2) == new_for_op(h, FMul(get_data(h, v1), get_data(h, v2)), "*", <<v1, v2>>, 0)

pow(h, v1, p) == new_for_op(h, powf(get_data(h, v1), p), "pow", <<v1>>, p)

exp(h, val) == new_for_op(h, f64_exp(get_data(h, val)), "exp", <<val>>, 0)

\* the same operations with the node allocated last as second operand
add_last(h, v1) == add(h, v1, Len(h))

mul_last(h, v1) == mul(h, v1, Len(h))

neg(h, v1) == mul_last(new(h, FNeg(1)), v1)

sub(h, v1, v2) == add_last(neg(h, v2), v1)

div(h, v1, v2) == mul_last(pow(h, v2, 0 - 1), v1)

\* the rest of tanh once s = sub(e, 1) is the last node: div(s, add(e, 1))
tanh_s(h, e) == IF h = <<>> THEN h ELSE div(add_last(new(h, 1), e), Len(h), Len(h) + 2)

\* the rest of tanh once e is the last node
tanh_e(h) == IF h = <<>> THEN h ELSE tanh_s(sub(new(h, 1), Len(h), Len(h) + 1), Len(h))

\* e = exp(mul(val, new(2.0))), then div(sub(e, new(1.0)), add(e, new(1.0)))
tanh(h, val) == tanh_e(exp(mul_last(new(h, 2), val), Len(h) + 2))

----------------------------------------------------------------------------
(* The operand graph *)

Operands(h, n) == {get_children(h, n)[i] : i \in 1 .. Len(get_children(h, n))}

RECURSIVE Closure(_, _)
Closure(h, S) ==
    LET T == S \cup UNION {Operands(h, n) : n \in S}
    IN  IF T = S THEN S ELSE Closure(h, T)

\* the nodes reachable from r via operand edges, r included
Reach(h, r) == Closure(h, {r})

----------------------------------------------------------------------------
(* Value::_backward: the local rule of one node *)

_backward_swapped(h, n) ==
    LET val == h[n]
        c   == val.children
    IN  CASE val.op = "+" ->
               update_grad(update_grad(h, c[1], val.grad), c[2], val.grad)
          [] val.op = "*" ->
               LET h1 == update_grad(h, c[1], FMul(val.grad, get_data(h, c[1])))
               IN  update_grad(h1, c[2], FMul(val.grad, get_data(h1, c[2])))
          [] val.op = "exp" ->
               update_grad(h, c[1], FMul(val.grad, val.data))
          [] val.op = "pow" ->
               update_grad(h, c[1],
                   FMul(FMul(val.grad, Lit(val.extra)), powf(get_data(h, c[1]), val.extra - 1)))
          [] OTHER -> h

_backward(h, n) ==
    LET val == h[n]
        c   == val.children
    IN  CASE val.op = "+" ->
               update_grad(update_grad(h, c[1], val.grad), c[2], val.grad)
          [] val.op = "*" ->
               LET h1 == update_grad(h, c[1], FMul(val.grad, get_data(h, c[2])))
               IN  update_grad(h1, c[2], FMul(val.grad, get_data(h1, c[1])))
          [] val.op = "exp" ->
               update_grad(h, c[1], FMul(val.grad, val.data))
          [] val.op = "pow" ->
               update_grad(h, c[1],
                   FMul(FMul(val.grad, Lit(val.extra)), powf(get_data(h, c[1]), val.extra - 1)))
          [] OTHER -> h

----------------------------------------------------------------------------
(* Value::backward: the traversal loop, the seed, the reverse walk *)

\* the locals of backward: [stack, visited, topo_sort]
DfsInit(r) == [stack |-> <<r>>, visited |-> {}, topo_sort |-> <<>>]

\* the loop body without the visited test on the children it pushes
DfsIter_push_all(h, d) ==
    LET node == d.stack[Len(d.stack)]
    IN  IF node \notin d.visited
        THEN [stack     |-> d.stack \o get_children(h, node),
              visited   |-> d.visited \cup {node},
              topo_sort |-> d.topo_sort]
        ELSE [stack     |-> SubSeq(d.stack, 1, Len(d.stack) - 1),
              visited   |-> d.visited,
              topo_sort |-> Append(d.topo_sort, node)]

\* one iteration of `while !stack.is_empty()`
DfsIter(h, d) ==
    LET node == d.stack[Len(d.stack)]
    IN  IF node \notin d.visited
        THEN LET vis == d.visited \cup {node}
             IN  [stack     |-> d.stack \o SelectSeq(get_children(h, node), LAMBDA child : child \notin vis),
                  visited   |-> vis,
                  topo_sort |-> d.topo_sort]
        ELSE [stack     |-> SubSeq(d.stack, 1, Len(d.stack) - 1),
              visited   |-> d.visited,
              topo_sort |-> Append(d.topo_sort, node)]

\* n iterations of `while !stack.is_empty()`; the first half is evaluated
\* (y = y) before the second half starts, which keeps the evaluation shallow
RECURSIVE DfsRun(_, _, _)
DfsRun(h, d, n) ==
    IF n = 0 THEN d
    ELSE IF n = 1 THEN (IF d.stack = <<>> THEN d ELSE DfsIter(h, d))
    ELSE LET half == n \div 2
             y    == DfsRun(h, d, half)
         IN  IF y = y THEN DfsRun(h, y, n - half) ELSE y

\* the loop `while !stack.is_empty()`: it visits each node once and pops
\* what it pushed, the root and at most two operands per node
DfsLoop(h, d) == DfsRun(h, d, 3 * Len(h) + 1)

\* n iterations of `for node in topo_sort.iter().rev()` from position i
RECURSIVE RevRun(_, _, _, _)
RevRun(h, topo, i, n) ==
    IF n = 0 THEN h
    ELSE IF n = 1 THEN _backward(h, topo[i])
    ELSE LET half == n \div 2
             y    == RevRun(h, topo, i, half)
         IN  IF y = y THEN RevRun(y, topo, i - half, n - half) ELSE y

\* the loop `for node in topo_sort.iter().rev()`
RevWalk(h, topo) == RevRun(h, topo, Len(topo), Len(topo))

\* the whole of backward as a function of the arena
backward(h, r) ==
    LET topo == DfsLoop(h, DfsInit(r)).topo_sort
    IN  RevWalk(set_grad(h, r, 1), topo)

----------------------------------------------------------------------------
(* Value::backward as steps of the running program *)

\* entry of backward(r): lines 186-190
CallBackward(r) ==
    /\ root' = r
    /\ stack' = DfsInit(r).stack
    /\ visited' = DfsInit(r).visited
    /\ topo_sort' = DfsInit(r).topo_sort
    /\ idx' = 0
    /\ pre' = heap
    /\ roots' = Append(roots, r)
    /\ pc' = "dfs"

\* one iteration of the traversal loop, lines 191-204
DfsStep ==
    /\ pc = "dfs"
    /\ stack # <<>>
    /\ LET d == DfsIter(heap, [stack |-> stack, visited |-> visited, topo_sort |-> topo_sort])
       IN  /\ stack' = d.stack
           /\ visited' = d.visited
           /\ topo_sort' = d.topo_sort
    /\ UNCHANGED <<heap, pc, root, idx, pre, roots, nnvars>>

\* self.set_grad(1.0), line 206, and entry of the reverse walk
Seed ==
    /\ pc = "dfs"
    /\ stack = <<>>
    /\ heap' = set_grad(heap, root, 1)
    /\ idx' = Len(topo_sort)
    /\ pc' = "prop"
    /\ UNCHANGED <<root, stack, visited, topo_sort, pre, roots, nnvars>>

\* one iteration of `for node in topo_sort.iter().rev()`, lines 208-211;
\* backward returns after the last one
PropStep ==
    /\ pc = "prop"
    /\ idx >= 1
    /\ heap' = _backward(heap, topo_sort[idx])
    /\ idx' = idx - 1
    /\ pc' = IF idx = 1 THEN "done" ELSE "prop"
    /\ UNCHANGED <<root, stack, visited, topo_sort, pre, roots, nnvars>>

----------------------------------------------------------------------------
(* The value-library driver: src/src/main.rs lines 10-34.  Leaves and      *)
(* derived nodes are built in any order, then backward is called on any    *)
(* node, possibly again without a reset.                                   *)

LeafVals == {1, 2}

Exponents == {0 - 1, 2}

NoMlp == <<>>

MainNew(v) ==
    /\ pc = "main"
    /\ Len(heap) < MaxNodes
    /\ heap' = new(heap, v)
    /\ UNCHANGED <<pc, bwvars, nnvars>>

MainAdd(a, b) ==
    /\ pc = "main"
    /\ Len(heap) < MaxNodes
    /\ heap' = add(heap, a, b)
    /\ UNCHANGED <<pc, bwvars, nnvars>>

MainMul(a, b) ==
    /\ pc = "main"
    /\ Len(heap) < MaxNodes
    /\ heap' = mul(heap, a, b)
    /\ UNCHANGED <<pc, bwvars, nnvars>>

\* a negative power of a zero-valued node is infinite: not modelled
MainPow(a, p) ==
    /\ pc = "main"
    /\ Len(heap) < MaxNodes
    /\ (p < 0 => get_data(heap, a) # 0)
    /\ heap' = pow(heap, a, p)
    /\ UNCHANGED <<pc, bwvars, nnvars>>

MainExp(a) ==
    /\ pc = "main"
    /\ Len(heap) < MaxNodes
    /\ heap' = exp(heap, a)
    /\ UNCHANGED <<pc, bwvars, nnvars>>

\* the first call is on a node that reaches the whole arena (nodes the root
\* does not reach play no part in the call), later calls are on any node
MainBackward(r) ==
    /\ pc \in {"main", "done"}
    /\ roots = <<>> => Reach(heap, r) = Ids(heap)
    /\ roots # <<>> => Len(heap) <= MaxNodesAgain /\ Len(roots) < MaxPasses
    /\ CallBackward(r)
    /\ UNCHANGED <<heap, nnvars>>

Init ==
    /\ \E v \in LeafVals : heap = new(<<>>, v)
    /\ pc = "main"
    /\ root = 0
    /\ stack = <<>>
    /\ visited = {}
    /\ topo_sort = <<>>
    /\ idx = 0
    /\ pre = <<>>
    /\ roots = <<>>
    /\ mlp = NoMlp
    /\ xs = <<>>
    /\ ys = <<>>
    /\ ypred = <<>>
    /\ loss = 0
    /\ epoch = 0

Next ==
    \/ \E v \in LeafVals : MainNew(v)
    \/ \E a \in Ids(heap), b \in Ids(heap) : MainAdd(a, b)
    \/ \E a \in Ids(heap), b \in Ids(heap) : MainMul(a, b)
    \/ \E a \in Ids(heap), p \in Exponents : MainPow(a, p)
    \/ \E a \in Ids(heap) : MainExp(a)
    \/ \E r \in Ids(heap) : MainBackward(r)
    \/ DfsStep
    \/ Seed
    \/ PropStep

Spec == Init /\ [][Next]_vars

----------------------------------------------------------------------------
(* Neuron, Layer, MLP: src/src/nn.rs.  A forward call returns the arena,   *)
(* the node(s) it returns and whether it returned at all: indexing the     *)
(* input vector past its end panics.                                       *)

\* Neuron::new where the arena h ends with the nin weights and the bias
\* that the constructor has just allocated
NeuronAt(first, nin) == [w |-> [i \in 1 .. nin |-> first + i - 1], b |-> first + nin]

\* Layer::new: nout neurons of nin weights and a bias each; draw[k] is the
\* k-th value that thread_rng().gen_range(-1.0..1.0) returns
Layer_new(h, nin, nout, draw, k) ==
    [heap    |-> h \o [j \in 1 .. nout * (nin + 1) |-> RawValue(draw[k + j], "", <<>>, 0)],
     neurons |-> [j \in 1 .. nout |-> NeuronAt(Len(h) + (j - 1) * (nin + 1) + 1, nin)]]

RECURSIVE MLP_new_from(_, _, _, _, _, _)
MLP_new_from(h, sz, draw, k, l, layers) ==
    IF l >= Len(sz) THEN [heap |-> h, layers |-> layers]
    ELSE LET lay == Layer_new(h, sz[l], sz[l + 1], draw, k)
         IN  MLP_new_from(lay.heap, sz, draw, k + sz[l + 1] * (sz[l] + 1), l + 1,
                          Append(layers, lay.neurons))

\* MLP::new: one layer per window of two sizes
MLP_new(h, sz, draw) == MLP_new_from(h, sz, draw, 0, 1, <<>>)

\* the loop of Neuron::forward from index i; y is the last node of h (an
\* arena is never empty here, it holds the parameters: the test on it here
\* and below has the arena evaluated before the nodes appended to it)
RECURSIVE Neuron_forward_loop(_, _, _, _)
Neuron_forward_loop(h, n, x, i) ==
    IF h = <<>> \/ i > Len(n.w) THEN h
    ELSE Neuron_forward_loop(add(mul(h, n.w[i], x[i]), Len(h), Len(h) + 1), n, x, i + 1)

\* x[i] is out of bounds for some index of the loop
Neuron_forward_panics(n, x) == \E i \in 1 .. Len(n.w) : i > Len(x)

\* Neuron::forward: y starts as a new leaf holding the bias value; the
\* node returned is the last of the arena
Neuron_forward_y(h) == IF h = <<>> THEN h ELSE tanh(h, Len(h))

Neuron_forward(h, n, x) == Neuron_forward_y(Neuron_forward_loop(new(h, get_data(h, n.b)), n, x, 1))

Neuron_parameters(n) == Append(n.w, n.b)

\* the arena and the outputs collected so far, after one more neuron
Collect(h, outs) == [heap |-> h, out |-> Append(outs, Len(h))]

RECURSIVE Layer_forward_from(_, _, _, _)
Layer_forward_from(acc, neurons, x, j) ==
    IF acc.heap = <<>> \/ j > Len(neurons) THEN acc
    ELSE Layer_forward_from(Collect(Neuron_forward(acc.heap, neurons[j], x), acc.out),
                            neurons, x, j + 1)

\* Layer::forward: one output per neuron, each fed the same x
Layer_forward(h, neurons, x) == Layer_forward_from([heap |-> h, out |-> <<>>], neurons, x, 1)

Layer_forward_panics(neurons, x) ==
    \E j \in 1 .. Len(neurons) : Neuron_forward_panics(neurons[j], x)

RECURSIVE Layer_parameters_from(_, _)
Layer_parameters_from(neurons, j) ==
    IF j > Len(neurons) THEN <<>>
    ELSE Neuron_parameters(neurons[j]) \o Layer_parameters_from(neurons, j + 1)

Layer_parameters(neurons) == Layer_parameters_from(neurons, 1)

RECURSIVE MLP_forward_from(_, _, _)
MLP_forward_from(acc, layers, l) ==
    IF acc.heap = <<>> \/ l > Len(layers) THEN acc
    ELSE MLP_forward_from(Layer_forward(acc.heap, layers[l], acc.out), layers, l + 1)

\* MLP::forward: the output of a layer feeds the next
MLP_forward(h, layers, x) == MLP_forward_from([heap |-> h, out |-> x], layers, 1)

\* a layer gets the input (layer 1) or one value per neuron of the layer before
MLP_forward_panics(layers, x) ==
    \E l \in 1 .. Len(layers) :
        Layer_forward_panics(layers[l], IF l = 1 THEN x ELSE layers[l - 1])

RECURSIVE MLP_parameters_from(_, _)
MLP_parameters_from(layers, l) ==
    IF l > Len(layers) THEN <<>>
    ELSE Layer_parameters(layers[l]) \o MLP_parameters_from(layers, l + 1)

MLP_parameters(layers) == MLP_parameters_from(layers, 1)

RECURSIVE SetGradAll(_, _, _, _)
SetGradAll(h, ps, i, g) ==
    IF i > Len(ps) THEN h ELSE SetGradAll(set_grad(h, ps[i], g), ps, i + 1, g)

MLP_zero_grad_skipped(h, layers) == h

MLP_zero_grad(h, layers) == SetGradAll(h, MLP_parameters(layers), 1, 0)

----------------------------------------------------------------------------
(* The training loop: src/src/main.rs lines 38-77 *)

\* the network shapes of the model (main builds 3-4-4-1)
Sizes == {<<1, 1>>, <<2, 1>>, <<1, 2, 1>>, <<1, 1, 2, 1>>}

\* the parameters of the largest network of Sizes
MaxParams == 9

\* values of thread_rng().gen_range(-1.0..1.0): -1.0 and 0.5
ParamVals == {FNeg(1), FInv[2]}

\* the data and the labels of main
XS == << <<2, 3, FNeg(1)>>, <<3, FNeg(1), FInv[2]>>, <<FInv[2], 1, 1>>, <<1, 1, FNeg(1)>> >>

YS == <<1, FNeg(1), FNeg(1), 1>>

\* lr = 0.1
lr == FInv[10]

\* the loss of one epoch, lines 62-65, from index i; the loss so far is
\* the last node of h, and the loss node is the last of the result
RECURSIVE LossFrom(_, _)
LossFrom(h, i) ==
    IF h = <<>> \/ i > Len(ypred) THEN h
    ELSE LossFrom(add_last(pow(sub(h, ypred[i], ys[i]), Len(h) + 3, 2), Len(h)), i + 1)

RECURSIVE UpdateAll(_, _, _)
UpdateAll(h, ps, i) ==
    IF i > Len(ps) THEN h
    ELSE UpdateAll(update_data(h, ps[i], FMul(FNeg(lr), get_grad(h, ps[i]))), ps, i + 1)

\* the nodes that outlive an epoch: the parameters, the data, the labels
Owned == Len(MLP_parameters(mlp)) + Len(xs) * (IF xs = <<>> THEN 0 ELSE Len(xs[1])) + Len(ys)

\* one item of the forward pass, line 59: mlp.forward(x)[0] for the next x
TrainForward ==
    /\ pc = "train"
    /\ epoch < MaxEpoch
    /\ Len(ypred) < Len(xs)
    /\ IF MLP_forward_panics(mlp, xs[Len(ypred) + 1])
       THEN /\ pc' = "panic"
            /\ UNCHANGED <<heap, ypred>>
       ELSE \E r \in {MLP_forward(heap, mlp, xs[Len(ypred) + 1])} :
                /\ heap' = r.heap
                /\ ypred' = Append(ypred, r.out[1])
                /\ pc' = IF Len(ypred) + 1 = Len(xs) THEN "forwarded" ELSE "train"
    /\ UNCHANGED <<bwvars, mlp, xs, ys, loss, epoch>>

TrainLoss ==
    /\ pc = "forwarded"
    /\ \E h \in {LossFrom(new(heap, 0), 1)} : heap' = h /\ loss' = Len(h)
    /\ pc' = "loss"
    /\ UNCHANGED <<bwvars, mlp, xs, ys, ypred, epoch>>

TrainZeroGrad ==
    /\ pc = "loss"
    /\ heap' = MLP_zero_grad(heap, mlp)
    /\ pc' = "zeroed"
    /\ UNCHANGED <<bwvars, nnvars>>

TrainBackward ==
    /\ pc = "zeroed"
    /\ CallBackward(loss)
    /\ UNCHANGED <<heap, nnvars>>

\* lines 72-77: the gradient-descent step; loss and ypred go out of scope at
\* the end of the loop body, which frees the graph of this epoch
TrainUpdate ==
    /\ pc = "done"
    /\ heap' = SubSeq(UpdateAll(heap, MLP_parameters(mlp), 1), 1, Owned)
    /\ epoch' = epoch + 1
    /\ ypred' = <<>>
    /\ loss' = 0
    /\ pc' = "train"
    /\ UNCHANGED <<bwvars, mlp, xs, ys>>

\* main up to the loop: the network, then the first ns rows of the data cut
\* to len columns, then their labels
InitNN ==
    \E sz \in Sizes, v1 \in ParamVals, v2 \in ParamVals, ns \in 1 .. MaxSamples, len \in 0 .. 3 :
        /\ len \in (sz[1] - 1) .. (sz[1] + 1)
        /\ LET draw == [k \in 1 .. MaxParams |-> IF k % 2 = 1 THEN v1 ELSE v2]
               m  == MLP_new(<<>>, sz, draw)
               hx == m.heap \o [j \in 1 .. ns * len |->
                                   RawValue(XS[((j - 1) \div len) + 1][((j - 1) % len) + 1], "", <<>>, 0)]
               hy == hx \o [k \in 1 .. ns |-> RawValue(YS[k], "", <<>>, 0)]
           IN  /\ heap = hy
               /\ mlp = m.layers
               /\ xs = [k \in 1 .. ns |-> [i \in 1 .. len |-> Len(m.heap) + (k - 1) * len + i]]
               /\ ys = [k \in 1 .. ns |-> Len(hx) + k]
        /\ pc = "train"
        /\ root = 0
        /\ stack = <<>>
        /\ visited = {}
        /\ topo_sort = <<>>
        /\ idx = 0
        /\ pre = <<>>
        /\ roots = <<>>
        /\ ypred = <<>>
        /\ loss = 0
        /\ epoch = 0

NextNN ==
    \/ TrainForward
    \/ TrainLoss
    \/ TrainZeroGrad
    \/ TrainBackward
    \/ DfsStep
    \/ Seed
    \/ PropStep
    \/ TrainUpdate

SpecNN == InitNN /\ [][NextNN]_vars

----------------------------------------------------------------------------
(* The derivative of the root with respect to every node, from the node    *)
(* values alone: the sum over all operand paths of the products of the     *)
(* local partial derivatives (table of the graph-building operations).     *)

\* d(c)/d(operand i of c)
LocalPartial(h, c, i) ==
    CASE h[c].op = "+"   -> 1
      [] h[c].op = "*"   -> get_data(h, get_children(h, c)[3 - i])
      [] h[c].op = "exp" -> get_data(h, c)
      [] h[c].op = "pow" -> FMul(Lit(h[c].extra), powf(get_data(h, get_children(h, c)[1]), h[c].extra - 1))
      [] OTHER           -> 0

RECURSIVE SumFn(_, _, _)
SumFn(f, lo, hi) ==
    IF lo > hi THEN 0
    ELSE IF lo = hi THEN f[lo]
    ELSE FAdd(SumFn(f, lo, (lo + hi) \div 2), SumFn(f, (lo + hi) \div 2 + 1, hi))

\* d(c)/d(n) along the operand edges from c to n (n may fill several positions)
PartialTo(h, c, n) ==
    LET ch == get_children(h, c)
    IN  SumFn([i \in 1 .. Len(ch) |-> IF ch[i] = n THEN LocalPartial(h, c, i) ELSE 0], 1, Len(ch))

\* acc holds d(r)/d(k) for the nodes k > n; operands precede their consumers
DerivDown(h, r, n, acc) ==
    LET d == IF n = r THEN 1
             ELSE IF n > r THEN 0
             ELSE SumFn([c \in (n + 1) .. r |-> FMul(acc[c], PartialTo(h, c, n))], n + 1, r)
    IN  [k \in n .. Len(h) |-> IF k = n THEN d ELSE acc[k]]

\* DerivDown for the m nodes n, n - 1, ...
RECURSIVE DerivRun(_, _, _, _, _)
DerivRun(h, r, n, acc, m) ==
    IF m = 0 THEN acc
    ELSE IF m = 1 THEN DerivDown(h, r, n, acc)
    ELSE LET half == m \div 2
             y    == DerivRun(h, r, n, acc, half)
         IN  IF y = y THEN DerivRun(h, r, n - half, y, m - half) ELSE y

\* Deriv(h, r)[n] = d(r)/d(n)
Deriv(h, r) == DerivRun(h, r, Len(h), <<>>, Len(h))

\* the reachable consumers of n
Consumers(h, r, n) == {c \in Reach(h, r) : n \in Operands(h, c)}

Count(seq, n) == Cardinality({i \in 1 .. Len(seq) : seq[i] = n})

IsLeaf(h, n) == get_children(h, n) = <<>>

----------------------------------------------------------------------------
(* Claims about the engine, checked under Spec *)

\* C1: after root.backward() on a graph whose gradients were all 0, the
\* gradient of every node reachable from root is d(root)/d(node), the sum
\* over all operand paths of the products of the local partials, also when
\* a non-leaf node is shared.
C1_GradientIsDerivative ==
    (pc = "done" /\ Len(roots) = 1) =>
        \A n \in Reach(heap, root) : get_grad(heap, n) = Deriv(heap, root)[n]

\* C2: every node reachable from root is appended to topo_sort exactly once,
\* so _backward runs exactly once per reachable node.
C2_EmittedOnce ==
    (pc \in {"prop", "done"}) =>
        \A n \in Reach(heap, root) : Count(topo_sort, n) = 1

\* C3: a node's propagation step runs only after every propagation step of
\* each of its reachable consumers, so its gradient is complete when it
\* propagates to its own operands (stated for the nodes that have operands).
C3_ConsumersFirst ==
    (pc = "prop" /\ idx >= 1 /\ Len(roots) = 1) =>
        LET n == topo_sort[idx]
        IN  ~IsLeaf(heap, n) =>
              /\ \A c \in Consumers(heap, root, n) : \A i \in 1 .. idx : topo_sort[i] # c
              /\ get_grad(heap, n) = Deriv(heap, root)[n]

\* the graph d = mul(a, add(a, a)) on a leaf a, differentiated once from d
Diamond(a, s, d) ==
    /\ IsLeaf(heap, a)
    /\ heap[s].op = "+" /\ get_children(heap, s) = <<a, a>>
    /\ heap[d].op = "*" /\ get_children(heap, d) = <<a, s>>
    /\ pc = "done" /\ roots = <<d>>

\* C7 as stated: after d.backward() on d = mul(a, add(a, a)), a.gradient is
\* 3 * 2 * a.value.
C7_DiamondSixTimes ==
    \A a \in Ids(heap), s \in Ids(heap), d \in Ids(heap) :
        Diamond(a, s, d) => get_grad(heap, a) = FMul(6, get_data(heap, a))

\* C7 amended: after d.backward() on d = mul(a, add(a, a)), a.gradient is
\* 4 * a.value, the derivative of 2a^2.
C7_DiamondFourTimes ==
    \A a \in Ids(heap), s \in Ids(heap), d \in Ids(heap) :
        Diamond(a, s, d) => get_grad(heap, a) = FMul(4, get_data(heap, a))

C7_Witness ==
    \E a \in Ids(heap), s \in Ids(heap), d \in Ids(heap) :
        Diamond(a, s, d) /\ get_grad(heap, a) # 0

\* the leaf operands of the root that no other reachable node consumes
DirectLeaves(h, r) == {n \in Operands(h, r) : IsLeaf(h, n) /\ Consumers(h, r, n) = {r}}

C8_Seed == (pc \in {"prop", "done"}) => get_grad(heap, root) = 1

C8_Additive ==
    (pc = "done") =>
        /\ \A n \in Ids(heap) \ {root} :
              IsLeaf(heap, n) =>
                 get_grad(heap, n) =
                     FAdd(get_grad(pre, n), get_grad(backward(set_grad(pre, n, 0), root), n))
        /\ IsLeaf(heap, root) => heap = set_grad(pre, root, 1)

\* C8 as stated: backward sets root.gradient to 1.0 whatever it held, and it
\* is still 1.0 on return; every other gradient is only added to; a second
\* backward on the same root without a reset leaves every leaf operand of
\* root with twice the single-pass gradient; on a leaf root backward only
\* sets the gradient to 1.0.
C8_SeedAndAccumulate ==
    /\ C8_Seed
    /\ C8_Additive
    /\ (pc = "done" /\ Len(roots) = 2 /\ roots[1] = roots[2]) =>
          \A n \in Operands(heap, root) :
              IsLeaf(heap, n) => get_grad(heap, n) = FMul(2, get_grad(pre, n))

\* C8 amended: as stated, but the second backward doubles the gradient of
\* the leaf operands of root that no other node reachable from root consumes.
C8_SeedAndAccumulateDirect ==
    /\ C8_Seed
    /\ C8_Additive
    /\ (pc = "done" /\ Len(roots) = 2 /\ roots[1] = roots[2]) =>
          \A n \in DirectLeaves(heap, root) : get_grad(heap, n) = FMul(2, get_grad(pre, n))

C8_Witness ==
    /\ pc = "done" /\ Len(roots) = 2 /\ roots[1] = roots[2]
    /\ \E n \in DirectLeaves(heap, root) : get_grad(pre, n) # 0 /\ get_grad(heap, n) # get_grad(pre, n)

\* the arena after the propagation step of node out, by the table of local
\* rules: every node grows by out.gradient times d(out)/d(node)
AfterStep(h, out) ==
    [n \in Ids(h) |-> [h[n] EXCEPT !.grad = FAdd(@, FMul(get_grad(h, out), PartialTo(h, out, n)))]]

\* C9: one propagation step adds to each operand out.gradient times the
\* local partial of out's operation (both additions when the operands of a
\* mul are the same node) and changes nothing else.
C9_LocalRule ==
    [][(pc = "prop" /\ idx' = idx - 1) => heap' = AfterStep(heap, topo_sort[idx])]_vars

\* a mul of a node with itself has just propagated a nonzero gradient
C9_Witness ==
    /\ pc \in {"prop", "done"}
    /\ idx < Len(topo_sort)
    /\ LET out == topo_sort[idx + 1]
       IN  /\ heap[out].op = "*"
           /\ get_children(heap, out)[1] = get_children(heap, out)[2]
           /\ get_grad(heap, out) # 0
           /\ get_grad(heap, get_children(heap, out)[1]) # 0

----------------------------------------------------------------------------
(* Claims about the network and the training loop, checked under SpecNN *)

Range(seq) == {seq[i] : i \in 1 .. Len(seq)}

\* the neuron whose forward result is mlp.forward(x)[0]
OutputNeuron == mlp[Len(mlp)][1]

\* C4: the node a neuron's forward returns reaches every node that its
\* parameters() returns, the weights and the bias, via operand edges (so
\* that backward adds the derivatives into them).
C4_ParametersReachable ==
    (pc = "forwarded") =>
        \A k \in 1 .. Len(ypred) :
            Range(Neuron_parameters(OutputNeuron)) \subseteq Reach(heap, ypred[k])

ZeroAll(h) == [n \in Ids(h) |-> [h[n] EXCEPT !.grad = 0]]

\* C5: right after the backward of a training step the gradient of every
\* parameter is what the same step gives on an arena whose gradients are
\* all 0, whatever the earlier steps left behind.
C5_NoStaleAccumulation ==
    (pc = "done") =>
        \A p \in Range(MLP_parameters(mlp)) :
            get_grad(heap, p) = get_grad(backward(ZeroAll(pre), root), p)

\* a later step: gradients were left behind, and a parameter got a gradient
C5_Witness ==
    /\ pc = "done"
    /\ epoch >= 1
    /\ \E n \in Ids(pre) : get_grad(pre, n) # 0
    /\ \E p \in Range(MLP_parameters(mlp)) : get_grad(heap, p) # 0

\* C6: no core operation aborts; the forward calls return normally for an
\* input sequence of any length.
C6_NoAbort == pc # "panic"

Weights == UNION {UNION {Range(mlp[l][j].w) : j \in 1 .. Len(mlp[l])} : l \in 1 .. Len(mlp)}

\* C10: backward on the loss of the training loop processes every
\* reachable non-leaf node exactly once and after all of its consumers, and
\* leaves d(loss)/d(weight) in every weight node: the order walked holds
\* every reachable non-leaf node once, no entry still to be processed (the
\* entries up to idx) consumes the non-leaf node being processed, and at the
\* end every weight holds its derivative.
C10_TrainingGraph ==
    /\ (pc = "done") =>
          \A n \in Reach(heap, loss) : ~IsLeaf(heap, n) => Count(topo_sort, n) = 1
    /\ (pc = "prop" /\ idx >= 1 /\ ~IsLeaf(heap, topo_sort[idx])) =>
          \A i \in 1 .. idx : topo_sort[idx] \notin Operands(heap, topo_sort[i])
    /\ (pc = "done") =>
          \A w \in Weights : get_grad(heap, w) = Deriv(heap, loss)[w]

\* a network with a hidden layer read by two neurons has been differentiated:
\* a neuron output and an exp node have two consumers each and a first-layer
\* weight has a gradient
C10_Witness ==
    /\ pc = "done"
    /\ Len(mlp) = 3
    /\ \E n \in Reach(heap, loss) : heap[n].op = "*" /\ Cardinality(Consumers(heap, loss, n)) >= 2
    /\ \E n \in Reach(heap, loss) : heap[n].op = "exp" /\ Cardinality(Consumers(heap, loss, n)) >= 2
    /\ \E w \in Range(mlp[1][1].w) : get_grad(heap, w) # 0

====
